---- MODULE Spec2Model ----
(***************************************************************************)
(* Model of ant/base.py: the Message codec (Message.__init__, get, parse), *)
(* the frame assembler (Ant.read_message), the reading thread (Ant.run)    *)
(* with its dispatch, burst reassembly, duplicate suppression and the      *)
(* timeslot drain, and the enqueuing callers (write_message_timeslot,      *)
(* send_acknowledged_data, send_burst_transfer).                           *)
(***************************************************************************)
EXTENDS Naturals, Sequences, FiniteSets, TLC

(***************************************************************************)
(* Bytes and bit operations (Python's ^, & and >> on small integers).      *)
(***************************************************************************)
RECURSIVE XorBits(_, _)
XorBits(a, b) ==
    IF a = 0 THEN b
    ELSE IF b = 0 THEN a
    ELSE (((a % 2) + (b % 2)) % 2) + (2 * XorBits(a \div 2, b \div 2))

\* a ^ b; each operand is evaluated once, then combined bit by bit
Xor(a, b) == CHOOSE r \in {XorBits(x, y) : x \in {a}, y \in {b}} : TRUE

RECURSIVE BitAnd(_, _)
BitAnd(a, b) ==
    IF a = 0 \/ b = 0 THEN 0
    ELSE ((a % 2) * (b % 2)) + (2 * BitAnd(a \div 2, b \div 2))

RECURSIVE BitOr(_, _)
BitOr(a, b) ==
    IF a = 0 THEN b
    ELSE IF b = 0 THEN a
    ELSE (IF a % 2 = 1 \/ b % 2 = 1 THEN 1 ELSE 0) + (2 * BitOr(a \div 2, b \div 2))

ShiftRight(a, n) == a \div (2 ^ n)

ShiftLeft(a, n) == a * (2 ^ n)

\* reduce(lambda x, y: x ^ y, s) for a non-empty s; ^ is associative, so the left
\* fold is computed by halves, which keeps the evaluation shallow for long payloads
RECURSIVE reduce_xor(_)
reduce_xor(s) ==
    IF Len(s) = 1 THEN s[1]
    ELSE LET h == Len(s) \div 2
         IN  Xor(reduce_xor(SubSeq(s, 1, h)), reduce_xor(SubSeq(s, h + 1, Len(s))))

\* s[n:] of Python, n >= 0
SliceFrom(s, n) == SubSeq(s, n + 1, Len(s))

\* s[:n] of Python, n >= 0
SliceTo(s, n) == SubSeq(s, 1, IF n < Len(s) THEN n ELSE Len(s))

(***************************************************************************)
(* Message.ID and Message.Code values used by the reading thread.          *)
(***************************************************************************)
SYNC == 164

STARTUP_MESSAGE == 111

SERIAL_ERROR_MESSAGE == 174

BROADCAST_DATA == 78

ACKNOWLEDGE_DATA == 79

BURST_TRANSFER_DATA == 80

RESPONSE_CHANNEL == 64

RESPONSE_CHANNEL_STATUS == 82

RESPONSE_CHANNEL_ID == 81

RESPONSE_VERSION == 62

RESPONSE_CAPABILITIES == 84

RESPONSE_SERIAL_NUMBER == 97

ASSIGN_CHANNEL == 66

EVENT_RX_BROADCAST == 1000

EVENT_RX_ACKNOWLEDGED == 2000

EVENT_RX_BURST_PACKET == 3000

\* array.array('B', ...) holds values 0..255 only
ByteMax == 255

(***************************************************************************)
(* Results of operations that may raise.                                   *)
(***************************************************************************)
NoMessage == [sync |-> 0, length |-> 0, id |-> 0, data |-> <<>>, checksum |-> 0]

Ok(m) == [ok |-> TRUE, msg |-> m, bytes |-> <<>>, err |-> ""]

OkBytes(b) == [ok |-> TRUE, msg |-> NoMessage, bytes |-> b, err |-> ""]

Raise(e) == [ok |-> FALSE, msg |-> NoMessage, bytes |-> <<>>, err |-> e]

NoResult == [ok |-> FALSE, msg |-> NoMessage, bytes |-> <<>>, err |-> "none"]

(***************************************************************************)
(* Message.__init__: reduce() over an empty data raises TypeError.         *)
(***************************************************************************)
Message(mId, data) ==
    IF Len(data) = 0
    THEN Raise("TypeError")
    ELSE Ok([sync     |-> SYNC,
             length   |-> Len(data),
             id       |-> mId,
             data     |-> data,
             checksum |-> Xor(Xor(Xor(SYNC, Len(data)), mId), reduce_xor(data))])

(***************************************************************************)
(* Message.get: array.array('B', ...) raises OverflowError for a value     *)
(* above 255 (a length of 256 or more).                                    *)
(***************************************************************************)
get(m) ==
    LET l == <<m.sync, m.length, m.id>> \o m.data \o <<m.checksum>>
    IN  IF \E i \in 1..Len(l) : l[i] > ByteMax
        THEN Raise("OverflowError")
        ELSE OkBytes(l)

ChecksumMatchesMut(buf) == TRUE

\* `checksum == reduce(lambda x, y: x ^ y, buf[:-1])`, line 172
ChecksumMatches(buf) == buf[Len(buf)] = reduce_xor(SubSeq(buf, 1, Len(buf) - 1))

(***************************************************************************)
(* Message.parse: the three assertions, then Message(mId, data).           *)
(***************************************************************************)
parse(buf) ==
    IF Len(buf) < 3
    THEN Raise("IndexError")
    ELSE LET sync     == buf[1]
             length   == buf[2]
             mId      == buf[3]
             data     == SubSeq(buf, 4, Len(buf) - 1)
             checksum == buf[Len(buf)]
         IN  IF sync # SYNC THEN Raise("AssertionError")
             ELSE IF length # Len(data) THEN Raise("AssertionError")
             ELSE IF ~ChecksumMatches(buf) THEN Raise("AssertionError")
             ELSE Message(mId, data)

(***************************************************************************)
(* State.                                                                  *)
(***************************************************************************)
VARIABLES
    running,        \* Ant._running
    pc,             \* position of the reading thread in Ant.run
    buffer,         \* Ant._buffer
    burst_data,     \* Ant._burst_data
    last_data,      \* Ant._last_data
    message,        \* local `message` of Ant.run
    message_queue,  \* Ant._message_queue
    lockOwner,      \* owner of Ant._message_queue_cond (an RLock): "none", "reader" or a caller
    lockCount,      \* recursion level of the RLock
    cpc,            \* position of each caller in write_message_timeslot
    todo,           \* messages each caller has still to enqueue in its current call
    stream,         \* bytes the transport will still hand out (assembler specification)
    sent,           \* the frames the device put on that stream (assembler specification)
    packet,         \* history: the last candidate sliced by read_message
    calls,          \* history: callbacks invoked for the current message
    rxLog,          \* history: messages returned by read_message, with their callbacks
    readLog,        \* history: all bytes read from the transport
    written,        \* history: queued messages written to the transport by drains
    enqLog,         \* history: messages in the order they were appended to the queue
    attempts,       \* history: acquire attempts made for the current message
    drainStart,     \* history: the queue when the current drain acquired it
    drainPopped,    \* history: messages popped by the current drain
    drainWritten,   \* history: messages written by the current drain
    drainEnd,       \* history: "none", "active", "skipped", "done", "failed" or "crashed"
    cstage,         \* codec specification: stage of the pipeline
    cin,            \* codec specification: the (id, payload) under test
    cmsg,           \* codec specification: result of Message(id, payload)
    cbytes,         \* codec specification: result of get()
    cbuf,           \* codec specification: bytes handed to parse
    cres            \* codec specification: result of parse

readerVars == <<running, pc, buffer, burst_data, last_data, message>>

queueVars == <<message_queue, lockOwner, lockCount>>

callerVars == <<cpc, todo>>

histVars == <<packet, calls, rxLog, readLog, written, enqLog>>

drainVars == <<attempts, drainStart, drainPopped, drainWritten, drainEnd>>

codecVars == <<cstage, cin, cmsg, cbytes, cbuf, cres>>

vars == <<readerVars, queueVars, callerVars, stream, sent, histVars, drainVars, codecVars>>

(***************************************************************************)
(* Bounds of the model.                                                    *)
(***************************************************************************)
\* messages the reading thread processes in one behaviour
MaxFrames == 3

\* messages the reading thread processes in one behaviour of the engine
MaxRx == 2

\* messages the callers enqueue in one behaviour, all callers together
MaxEnq == 3

\* payload length of the codec inputs
MaxLen == 2

\* frames on the stream of the assembler specification
MaxStreamFrames == 2

\* bytes one transport read returns in the assembler specification
MaxChunk == 3

Callers == {"c1", "c2"}

(***************************************************************************)
(* Callbacks: response_function and channel_event_function are no-ops in   *)
(* the class; the model records each invocation.                           *)
(***************************************************************************)
None == <<>>

Chan(c) == <<c>>

response_function(channel, event, data) ==
    [fn |-> "response", channel |-> channel, event |-> event, data |-> data]

channel_event_function(channel, event, data) ==
    [fn |-> "channel_event", channel |-> channel, event |-> event, data |-> data]

\* result of a dispatch: callbacks made, the new burst accumulator, exception raised
Dispatched(c, b) == [calls |-> c, burst |-> b, err |-> ""]

DispatchRaise(e, b) == [calls |-> <<>>, burst |-> b, err |-> e]

on_broadcast(m) ==
    <<channel_event_function(Chan(m.data[1]), EVENT_RX_BROADCAST, SliceFrom(m.data, 1))>>

on_acknowledge(m) ==
    <<channel_event_function(Chan(m.data[1]), EVENT_RX_ACKNOWLEDGED, SliceFrom(m.data, 1))>>

BurstTerminalFlagMut(sequence) == BitAnd(sequence, 2) # 0

\* `sequence & 0b100 != 0`
BurstTerminalFlag(sequence) == BitAnd(sequence, 4) # 0

BurstAppendMut(acc, data) == data

\* self._burst_data.extend(data)
BurstAppend(acc, data) == acc \o data

on_burst_data(m, acc) ==
    LET sequence == ShiftRight(m.data[1], 5)
        channel  == BitAnd(m.data[1], 31)
        data     == SliceFrom(m.data, 1)
        ext      == BurstAppend(acc, data)
    IN  IF BurstTerminalFlag(sequence)
        THEN Dispatched(<<channel_event_function(Chan(channel), EVENT_RX_BURST_PACKET, ext)>>,
                        <<>>)
        ELSE Dispatched(<<>>, ext)

\* `message._id == BROADCAST_DATA and message._data == self._last_data`
IsResent(m, last) == m.id = BROADCAST_DATA /\ m.data = last

IsResponseCodeMut(code) == code # 0

\* `message._data[1] != 0x01`, line 316
IsResponseCode(code) == code # 1

\* the if / elif chain of lines 310-331
ChannelChain(m, acc) ==
    IF m.id \in {RESPONSE_CHANNEL_STATUS, RESPONSE_CHANNEL_ID}
    THEN Dispatched(<<response_function(Chan(m.data[1]), m.id, SliceFrom(m.data, 1))>>, acc)
    ELSE IF m.id = RESPONSE_CHANNEL /\ Len(m.data) < 2
    THEN DispatchRaise("IndexError", acc)
    ELSE IF m.id = RESPONSE_CHANNEL /\ IsResponseCode(m.data[2])
    THEN Dispatched(<<response_function(Chan(m.data[1]), m.data[2], SliceFrom(m.data, 2))>>, acc)
    ELSE IF m.id = BROADCAST_DATA
    THEN Dispatched(on_broadcast(m), acc)
    ELSE IF m.id = ACKNOWLEDGE_DATA
    THEN Dispatched(on_acknowledge(m), acc)
    ELSE IF m.id = BURST_TRANSFER_DATA
    THEN on_burst_data(m, acc)
    ELSE IF m.id = RESPONSE_CHANNEL
    THEN Dispatched(<<channel_event_function(Chan(m.data[1]), m.data[2],
                                             SliceFrom(m.data, 2))>>, acc)
    ELSE Dispatched(<<>>, acc)

\* lines 297-333 of Ant.run
dispatch(m, last, acc) ==
    IF IsResent(m, last)
    THEN Dispatched(<<>>, acc)
    ELSE LET c1 == IF m.id \in {STARTUP_MESSAGE, SERIAL_ERROR_MESSAGE}
                   THEN <<response_function(None, m.id, m.data)>> ELSE <<>>
             c2 == IF m.id \in {RESPONSE_VERSION, RESPONSE_CAPABILITIES,
                                RESPONSE_SERIAL_NUMBER}
                   THEN <<response_function(None, m.id, m.data)>> ELSE <<>>
             c3 == ChannelChain(m, acc)
         IN  [c3 EXCEPT !.calls = c1 \o c2 \o @]

(***************************************************************************)
(* The reading thread, Ant.run, and Ant.read_message.                      *)
(***************************************************************************)
\* `len(self._buffer) >= 5 and len(self._buffer) >= self._buffer[1] + 4`
HasMessage(buf) == Len(buf) >= 5 /\ Len(buf) >= buf[2] + 4

WhileRunningMut(r) == "read"

\* `while self._running`, line 289: the flag is looked at here and nowhere else
WhileRunning(r) == IF r THEN "read" ELSE "done"

ReaderLoop ==
    /\ pc = "loop"
    /\ pc' = WhileRunning(running)
    /\ UNCHANGED <<running, buffer, burst_data, last_data, message>>
    /\ UNCHANGED <<queueVars, callerVars, stream, sent, histVars, drainVars, codecVars>>

\* read_message, a message is in the buffer: slice it off and parse it
ReaderSlice ==
    /\ pc = "read"
    /\ HasMessage(buffer)
    /\ LET n == buffer[2] + 4
           r == parse(SliceTo(buffer, n))
       IN  /\ packet' = SliceTo(buffer, n)
           /\ buffer' = SliceFrom(buffer, n)
           /\ message' = IF r.ok THEN r.msg ELSE message
           /\ pc' = IF r.ok THEN "dispatch" ELSE "dead"
    /\ calls' = <<>>
    /\ attempts' = 0
    /\ drainStart' = <<>>
    /\ drainPopped' = <<>>
    /\ drainWritten' = <<>>
    /\ drainEnd' = "none"
    /\ UNCHANGED <<running, burst_data, last_data>>
    /\ UNCHANGED <<queueVars, callerVars, stream, sent, rxLog, readLog, written, enqLog, codecVars>>

\* read_message, no message in the buffer: self._in.read returns `chunk`
TransportRead(chunk) ==
    /\ pc = "read"
    /\ ~HasMessage(buffer)
    /\ buffer' = buffer \o chunk
    /\ readLog' = readLog \o chunk
    /\ UNCHANGED <<running, pc, burst_data, last_data, message>>
    /\ UNCHANGED <<queueVars, callerVars, packet, calls, rxLog, written, enqLog>>
    /\ UNCHANGED drainVars

CaughtMut(e) == "dead"

\* `except usb.USBError`, line 353: the loop goes on; any other exception ends run
Caught(e) == IF e = "USBError" THEN "loop" ELSE "dead"

\* read_message, self._in.read raises usb.USBError: caught at line 353
ReadFail ==
    /\ pc = "read"
    /\ ~HasMessage(buffer)
    /\ pc' = Caught("USBError")
    /\ UNCHANGED <<running, buffer, burst_data, last_data, message>>
    /\ UNCHANGED <<queueVars, callerVars, stream, sent, histVars, drainVars, codecVars>>

AfterDispatchMut(m) ==
    IF m.id \in {BROADCAST_DATA, ACKNOWLEDGE_DATA} THEN "acquire" ELSE "set_last"

\* `if message._id == Message.ID.BROADCAST_DATA`, line 336
AfterDispatch(m) == IF m.id = BROADCAST_DATA THEN "acquire" ELSE "set_last"

\* lines 297-336: the callbacks, then the test for the timeslot
ReaderDispatch ==
    /\ pc = "dispatch"
    /\ LET d == dispatch(message, last_data, burst_data)
       IN  /\ calls' = d.calls
           /\ burst_data' = d.burst
           /\ rxLog' = Append(rxLog, [msg |-> message, calls |-> d.calls, err |-> d.err])
           /\ pc' = IF d.err # "" THEN "dead" ELSE AfterDispatch(message)
    /\ UNCHANGED <<running, buffer, last_data, message>>
    /\ UNCHANGED <<queueVars, callerVars, stream, sent, packet, readLog, written, enqLog>>
    /\ UNCHANGED <<drainVars, codecVars>>

AcquireOutcomeMut(owner) == IF owner \in {"none", "reader"} THEN "acquired" ELSE "block"

\* `self._message_queue_cond.acquire(blocking=False)` by the reading thread
AcquireOutcome(owner) == IF owner \in {"none", "reader"} THEN "acquired" ELSE "skip"

ReaderTryAcquire ==
    /\ pc = "acquire"
    /\ AcquireOutcome(lockOwner) \in {"acquired", "skip"}
    /\ attempts' = attempts + 1
    /\ IF AcquireOutcome(lockOwner) = "acquired"
       THEN /\ lockOwner' = "reader"
            /\ lockCount' = lockCount + 1
            /\ pc' = "drain"
            /\ drainStart' = message_queue
            /\ drainEnd' = "active"
       ELSE /\ pc' = "set_last"
            /\ drainEnd' = "skipped"
            /\ UNCHANGED <<lockOwner, lockCount, drainStart>>
    /\ UNCHANGED <<running, buffer, burst_data, last_data, message, message_queue>>
    /\ UNCHANGED <<callerVars, stream, sent, histVars, drainPopped, drainWritten, codecVars>>

StopAfterMut(m) == m.id # BURST_TRANSFER_DATA

\* `m._id != BURST_TRANSFER_DATA or m._data[0] & 0b10000000`
StopAfter(m) == m.id # BURST_TRANSFER_DATA \/ BitAnd(m.data[1], 128) # 0

WhileQueueMut(q) == Len(q) > 1

\* `while len(self._message_queue) > 0`, line 339
WhileQueue(q) == Len(q) > 0

\* the loop test is false: the else branch, line 348
ReaderDrainEmpty ==
    /\ pc = "drain"
    /\ ~WhileQueue(message_queue)
    /\ pc' = "release"
    /\ drainEnd' = "done"
    /\ UNCHANGED <<running, buffer, burst_data, last_data, message>>
    /\ UNCHANGED <<queueVars, callerVars, stream, sent, histVars, codecVars>>
    /\ UNCHANGED <<attempts, drainStart, drainPopped, drainWritten>>

\* popleft, write_message (get, then self._out.write succeeds), the break test
ReaderDrainWrite ==
    /\ pc = "drain"
    /\ WhileQueue(message_queue)
    /\ LET m == Head(message_queue)
       IN  /\ message_queue' = Tail(message_queue)
           /\ drainPopped' = Append(drainPopped, m)
           /\ IF get(m).ok
              THEN /\ written' = Append(written, m)
                   /\ drainWritten' = Append(drainWritten, m)
                   /\ pc' = IF StopAfter(m) THEN "release" ELSE "drain"
                   /\ drainEnd' = IF StopAfter(m) THEN "done" ELSE "active"
              ELSE \* get() raises OverflowError, which run does not catch
                   /\ pc' = Caught(get(m).err)
                   /\ drainEnd' = "crashed"
                   /\ UNCHANGED <<written, drainWritten>>
    /\ UNCHANGED <<running, buffer, burst_data, last_data, message>>
    /\ UNCHANGED <<lockOwner, lockCount, callerVars, stream, sent>>
    /\ UNCHANGED <<packet, calls, rxLog, readLog, enqLog, attempts, drainStart, codecVars>>

\* popleft, write_message: self._out.write raises usb.USBError, caught at line 353
ReaderDrainWriteFail ==
    /\ pc = "drain"
    /\ WhileQueue(message_queue)
    /\ get(Head(message_queue)).ok
    /\ message_queue' = Tail(message_queue)
    /\ drainPopped' = Append(drainPopped, Head(message_queue))
    /\ pc' = Caught("USBError")
    /\ drainEnd' = "failed"
    /\ UNCHANGED <<running, buffer, burst_data, last_data, message>>
    /\ UNCHANGED <<lockOwner, lockCount, callerVars, stream, sent, histVars>>
    /\ UNCHANGED <<attempts, drainStart, drainWritten, codecVars>>

\* `self._message_queue_cond.release()`, line 349
ReaderRelease ==
    /\ pc = "release"
    /\ lockCount' = lockCount - 1
    /\ lockOwner' = IF lockCount = 1 THEN "none" ELSE lockOwner
    /\ pc' = "set_last"
    /\ UNCHANGED <<running, buffer, burst_data, last_data, message, message_queue>>
    /\ UNCHANGED <<callerVars, stream, sent, histVars, drainVars, codecVars>>

LastDataAfterMut(m, last) == IF m.id = BROADCAST_DATA THEN m.data ELSE last

\* `self._last_data = message._data`, line 351
LastDataAfter(m, last) == m.data

ReaderSetLast ==
    /\ pc = "set_last"
    /\ last_data' = LastDataAfter(message, last_data)
    /\ pc' = "loop"
    /\ UNCHANGED <<running, buffer, burst_data, message>>
    /\ UNCHANGED <<queueVars, callerVars, stream, sent, histVars, drainVars, codecVars>>

\* Ant.stop: `self._running = False`
Stop ==
    /\ running
    /\ running' = FALSE
    /\ UNCHANGED <<pc, buffer, burst_data, last_data, message>>
    /\ UNCHANGED <<queueVars, callerVars, stream, sent, histVars, drainVars, codecVars>>

Reader ==
    \/ ReaderLoop
    \/ ReaderSlice
    \/ ReaderDispatch
    \/ ReaderTryAcquire
    \/ ReaderDrainEmpty
    \/ ReaderDrainWrite
    \/ ReaderDrainWriteFail
    \/ ReaderRelease
    \/ ReaderSetLast

(***************************************************************************)
(* The enqueuing callers.                                                  *)
(***************************************************************************)
\* send_acknowledged_data: the message it hands to write_message_timeslot
send_acknowledged_data(channel, broadcastData) ==
    <<Message(ACKNOWLEDGE_DATA, <<0>> \o broadcastData).msg>>

\* `channel | sequence << 5`, with the terminal bit on the last chunk
channelSeq(channel, i, n) ==
    LET sequence == IF i = n - 1 THEN BitOr(i % 4, 4) ELSE i % 4
    IN  BitOr(channel, ShiftLeft(sequence, 5))

\* send_burst_transfer: the messages it hands to write_message_timeslot, in order
send_burst_transfer(channel, data) ==
    [k \in 1..Len(data) |->
        Message(BURST_TRANSFER_DATA, <<channelSeq(channel, k - 1, Len(data))>> \o data[k]).msg]

\* messages enqueued so far or about to be, by the calls in progress
RECURSIVE Pending(_)
Pending(cs) ==
    IF cs = {} THEN 0
    ELSE LET c == CHOOSE x \in cs : TRUE IN Len(todo[c]) + Pending(cs \ {c})

Budget == MaxEnq - (Len(enqLog) + Pending(Callers))

\* a caller enters send_acknowledged_data
CallAck(c, d) ==
    /\ cpc[c] = "idle"
    /\ Budget >= 1
    /\ todo' = [todo EXCEPT ![c] = send_acknowledged_data(0, d)]
    /\ cpc' = [cpc EXCEPT ![c] = "lock"]
    /\ UNCHANGED <<readerVars, queueVars, stream, sent, histVars, drainVars, codecVars>>

\* a caller enters send_burst_transfer
CallBurst(c, channel, data) ==
    /\ cpc[c] = "idle"
    /\ Budget >= Len(data)
    /\ todo' = [todo EXCEPT ![c] = send_burst_transfer(channel, data)]
    /\ cpc' = [cpc EXCEPT ![c] = IF Len(data) = 0 THEN "idle" ELSE "lock"]
    /\ UNCHANGED <<readerVars, queueVars, stream, sent, histVars, drainVars, codecVars>>

\* write_message_timeslot: `with self._message_queue_cond:` acquires (blocking)
CallerAcquire(c) ==
    /\ cpc[c] = "lock"
    /\ lockOwner = "none"
    /\ lockOwner' = c
    /\ lockCount' = 1
    /\ cpc' = [cpc EXCEPT ![c] = "append"]
    /\ UNCHANGED <<readerVars, message_queue, todo, stream, sent, histVars>>
    /\ UNCHANGED <<drainVars, codecVars>>

\* write_message_timeslot: `self._message_queue.append(message)`
CallerAppend(c) ==
    /\ cpc[c] = "append"
    /\ message_queue' = Append(message_queue, Head(todo[c]))
    /\ enqLog' = Append(enqLog, Head(todo[c]))
    /\ cpc' = [cpc EXCEPT ![c] = "unlock"]
    /\ UNCHANGED <<readerVars, lockOwner, lockCount, todo, stream, sent>>
    /\ UNCHANGED <<packet, calls, rxLog, readLog, written, drainVars, codecVars>>

\* write_message_timeslot: leaving the `with` block releases the lock
CallerRelease(c) ==
    /\ cpc[c] = "unlock"
    /\ lockOwner' = "none"
    /\ lockCount' = 0
    /\ todo' = [todo EXCEPT ![c] = Tail(@)]
    /\ cpc' = [cpc EXCEPT ![c] = IF Len(todo[c]) > 1 THEN "lock" ELSE "idle"]
    /\ UNCHANGED <<readerVars, message_queue, stream, sent, histVars>>
    /\ UNCHANGED <<drainVars, codecVars>>

(***************************************************************************)
(* Initial state: Ant.__init__, the thread started.                        *)
(***************************************************************************)
EngineInit ==
    /\ running = TRUE
    /\ pc = "loop"
    /\ buffer = <<>>
    /\ burst_data = <<>>
    /\ last_data = <<>>
    /\ message = NoMessage
    /\ message_queue = <<>>
    /\ lockOwner = "none"
    /\ lockCount = 0
    /\ cpc = [c \in Callers |-> "idle"]
    /\ todo = [c \in Callers |-> <<>>]
    /\ packet = <<>>
    /\ calls = <<>>
    /\ rxLog = <<>>
    /\ readLog = <<>>
    /\ written = <<>>
    /\ enqLog = <<>>
    /\ attempts = 0
    /\ drainStart = <<>>
    /\ drainPopped = <<>>
    /\ drainWritten = <<>>
    /\ drainEnd = "none"

CodecIdle ==
    /\ cstage = "off"
    /\ cin = [id |-> 0, data |-> <<>>]
    /\ cmsg = NoResult
    /\ cbytes = NoResult
    /\ cbuf = <<>>
    /\ cres = NoResult

Init ==
    /\ EngineInit
    /\ stream = <<>>
    /\ sent = <<>>
    /\ CodecIdle

(***************************************************************************)
(* The engine: the reading thread, two callers, a transport that hands     *)
(* out whole frames, one per read.                                         *)
(***************************************************************************)
\* the bytes of a frame as the device sends it
Wire(mId, data) == <<SYNC, Len(data), mId>> \o data
                     \o <<reduce_xor(<<SYNC, Len(data), mId>> \o data)>>

EngineUnits ==
    { Wire(BROADCAST_DATA, <<0, 1>>),
      Wire(BROADCAST_DATA, <<0, 2>>),
      Wire(ACKNOWLEDGE_DATA, <<0, 1>>) }

\* what each caller sends: caller c1 uses data byte 17 and 18, caller c2 33 and 34
CallerByte(c) == IF c = "c1" THEN 17 ELSE 33

CallerChannel(c) == IF c = "c1" THEN 1 ELSE 2

EngineRead ==
    /\ Len(rxLog) < MaxRx
    /\ \E u \in EngineUnits : TransportRead(u)
    /\ UNCHANGED <<stream, sent, codecVars>>

EngineCallers ==
    \E c \in Callers :
        \/ CallAck(c, <<CallerByte(c)>>)
        \/ CallBurst(c, CallerChannel(c), << <<CallerByte(c)>>, <<CallerByte(c) + 1>> >>)
        \/ CallerAcquire(c)
        \/ CallerAppend(c)
        \/ CallerRelease(c)

Next ==
    \/ Reader
    \/ EngineRead
    \/ ReadFail
    \/ Stop
    \/ EngineCallers

Spec == Init /\ [][Next]_vars

(***************************************************************************)
(* Properties of the drain (engine specification).                         *)
(***************************************************************************)
IsPrefix(s, t) == Len(s) <= Len(t) /\ s = SubSeq(t, 1, Len(s))

\* a frame that ends a timeslot: not burst data, or burst data with bit 0x80 of byte 0
EndsSlot(m) == m.id # 80 \/ m.data[1] >= 128

\* length of the shortest non-empty prefix of q ending with such a frame, else Len(q)
SlotLen(q) ==
    IF \E i \in 1..Len(q) : EndsSlot(q[i])
    THEN CHOOSE i \in 1..Len(q) : EndsSlot(q[i]) /\ \A j \in 1..(i - 1) : ~EndsSlot(q[j])
    ELSE Len(q)

SlotPrefix(q) == SubSeq(q, 1, SlotLen(q))

SlotRest(q) == SubSeq(q, SlotLen(q) + 1, Len(q))

\* C1 as stated: whenever a drain that acquired the queue has ended, the frames it
\* wrote are exactly the shortest non-empty prefix of the queue ending with a
\* non-burst or terminal burst frame (the whole queue if there is none), and the
\* frames behind that prefix are still queued in order.
C1_DrainWritesSlotPrefix ==
    drainEnd \in {"done", "failed", "crashed"} =>
        /\ drainWritten = SlotPrefix(drainStart)
        /\ IsPrefix(SlotRest(drainStart), message_queue)

\* C1 amended: a drain whose writes all succeed writes exactly that prefix and
\* leaves the rest queued; a drain in which a write raises ends at the failing
\* frame: it wrote the frames of the prefix before it, removed the failing frame
\* without writing it, and left everything behind it queued in order.
C1_DrainWritesSlotPrefixUnlessWriteFails ==
    /\ drainEnd = "active" =>
          /\ drainWritten = drainPopped
          /\ IsPrefix(drainWritten, SlotPrefix(drainStart))
          /\ \A i \in 1..Len(drainWritten) : ~EndsSlot(drainWritten[i])
          /\ message_queue = SubSeq(drainStart, Len(drainPopped) + 1, Len(drainStart))
    /\ drainEnd = "done" =>
          /\ drainWritten = SlotPrefix(drainStart)
          /\ drainPopped = drainWritten
          /\ IsPrefix(SlotRest(drainStart), message_queue)
          /\ pc = "release" => message_queue = SlotRest(drainStart)
    /\ drainEnd \in {"failed", "crashed"} =>
          /\ drainPopped # <<>>
          /\ IsPrefix(drainPopped, SlotPrefix(drainStart))
          /\ drainWritten = SubSeq(drainPopped, 1, Len(drainPopped) - 1)
          /\ message_queue = SubSeq(drainStart, Len(drainPopped) + 1, Len(drainStart))

\* the example of the claim: [burst0, burst1-terminal, ack] writes the two burst
\* frames and leaves [ack]
C1_Witness ==
    /\ pc = "release"
    /\ drainEnd = "done"
    /\ Len(drainStart) = 3
    /\ drainStart[1].id = 80 /\ drainStart[1].data[1] < 128
    /\ drainStart[2].id = 80 /\ drainStart[2].data[1] >= 128
    /\ drainStart[3].id = 79
    /\ drainWritten = SubSeq(drainStart, 1, 2)
    /\ message_queue = <<drainStart[3]>>

\* C2: the queued frames written to the transport so far are a prefix of the frames
\* in the order their appends took effect (FIFO, none overtaking, none skipped).
C2_WrittenIsPrefixOfEnqueued == IsPrefix(written, enqLog)

\* C3: for a broadcast-data frame, delivered or suppressed, the reader makes exactly
\* one acquire attempt; for a frame of any other id it makes none, pops nothing
\* and writes nothing.
C3_DrainOncePerBroadcast ==
    /\ pc = "dispatch" => attempts = 0 /\ drainEnd = "none"
    /\ pc \in {"drain", "release"} => attempts = 1 /\ message.id = 78
    /\ (pc \in {"set_last", "loop", "read", "done"} /\ rxLog # <<>>) =>
          attempts = (IF message.id = 78 THEN 1 ELSE 0)
    /\ (pc # "dead" /\ message.id # 78) =>
          drainPopped = <<>> /\ drainWritten = <<>> /\ drainEnd = "none"
    /\ Len(written) <= Len(enqLog)

\* a suppressed broadcast frame whose drain wrote a queued frame
C3_Witness ==
    /\ pc = "set_last"
    /\ message.id = 78
    /\ calls = <<>>
    /\ attempts = 1
    /\ drainWritten # <<>>

\* C4: at the acquire attempt the reader is never blocked, and when a caller holds
\* the queue the reader's step pops and writes nothing, leaves the lock alone and
\* goes on to the end of the iteration.
C4_DrainNeverWaits ==
    /\ [](pc = "acquire" => ENABLED ReaderTryAcquire)
    /\ [][(pc = "acquire" /\ lockOwner \in Callers /\ pc' # pc) =>
            /\ pc' = "set_last"
            /\ message_queue' = message_queue
            /\ written' = written
            /\ lockOwner' = lockOwner
            /\ lockCount' = lockCount]_vars

\* the reader has skipped a drain because a caller held the queue, and the frame
\* that caller appended is still queued
C4_Witness ==
    /\ drainEnd = "skipped"
    /\ pc = "set_last"
    /\ lockOwner \in Callers
    /\ message_queue # <<>>
    /\ written = <<>>

(***************************************************************************)
(* Duplicate suppression (engine specification).                           *)
(***************************************************************************)
\* C5: of two consecutive inbound broadcast-data frames the second is suppressed
\* (no callback) if its payload equals the first's, and is delivered by exactly
\* one broadcast channel event if its payload differs, whatever the reader did
\* for the first frame, a drain included.
C5_ConsecutiveBroadcasts ==
    \A i \in 1..(Len(rxLog) - 1) :
        (rxLog[i].msg.id = 78 /\ rxLog[i + 1].msg.id = 78) =>
            IF rxLog[i + 1].msg.data = rxLog[i].msg.data
            THEN rxLog[i + 1].calls = <<>>
            ELSE /\ Len(rxLog[i + 1].calls) = 1
                 /\ rxLog[i + 1].calls[1].fn = "channel_event"
                 /\ rxLog[i + 1].calls[1].event = 1000

(***************************************************************************)
(* The dispatch specification: the reading thread alone (no caller, so the *)
(* queue stays empty and the drain finds nothing to pop), fed with frames  *)
(* of every class of message id, a frame with a wrong checksum and a       *)
(* zero-length frame.                                                      *)
(***************************************************************************)
DispatchUnits ==
    { Wire(STARTUP_MESSAGE, <<3, 1>>),
      Wire(SERIAL_ERROR_MESSAGE, <<3, 5, 9>>),
      Wire(RESPONSE_VERSION, <<3, 1>>),
      Wire(RESPONSE_CAPABILITIES, <<3, 1>>),
      Wire(RESPONSE_SERIAL_NUMBER, <<3, 5, 9>>),
      Wire(RESPONSE_CHANNEL_STATUS, <<3, 1>>),
      Wire(RESPONSE_CHANNEL_ID, <<3, 5, 9>>),
      Wire(RESPONSE_CHANNEL, <<3, 1>>),
      Wire(RESPONSE_CHANNEL, <<3, 1, 9>>),
      Wire(RESPONSE_CHANNEL, <<3, 5, 9>>),
      Wire(RESPONSE_CHANNEL, <<3>>),
      Wire(BROADCAST_DATA, <<3, 1>>),
      Wire(BROADCAST_DATA, <<3, 5, 9>>),
      Wire(ACKNOWLEDGE_DATA, <<3, 1>>),
      Wire(BURST_TRANSFER_DATA, <<3, 7>>),
      Wire(BURST_TRANSFER_DATA, <<35, 8>>),
      Wire(BURST_TRANSFER_DATA, <<195, 9>>),
      Wire(BURST_TRANSFER_DATA, <<132, 6>>),
      Wire(ASSIGN_CHANNEL, <<3, 1>>),
      <<SYNC, 2, BROADCAST_DATA, 3, 1, 0>>,
      <<SYNC, 0, BROADCAST_DATA, Xor(SYNC, BROADCAST_DATA)>> }

DispatchRead ==
    /\ Len(rxLog) < MaxFrames
    /\ \E u \in DispatchUnits : TransportRead(u)
    /\ UNCHANGED <<stream, sent, codecVars>>

NextDispatch ==
    \/ ReaderLoop
    \/ ReaderSlice
    \/ ReaderDispatch
    \/ ReaderTryAcquire
    \/ ReaderDrainEmpty
    \/ ReaderRelease
    \/ ReaderSetLast
    \/ DispatchRead
    \/ ReadFail

SpecDispatch == Init /\ [][NextDispatch]_vars

\* C6: every decoded frame causes at most one callback, on the slot and with the
\* arguments the precedence list gives for its id.
C6_Routing ==
    \A i \in 1..Len(rxLog) :
        LET m == rxLog[i].msg
            c == rxLog[i].calls
            d == m.data
        IN  /\ Len(c) <= 1
            /\ m.id \in {111, 174, 62, 84, 97} =>
                  c = << [fn |-> "response", channel |-> <<>>, event |-> m.id, data |-> d] >>
            /\ m.id \in {82, 81} =>
                  c = << [fn |-> "response", channel |-> <<d[1]>>, event |-> m.id,
                          data |-> SubSeq(d, 2, Len(d))] >>
            /\ (m.id = 64 /\ Len(d) >= 2 /\ d[2] # 1) =>
                  c = << [fn |-> "response", channel |-> <<d[1]>>, event |-> d[2],
                          data |-> SubSeq(d, 3, Len(d))] >>
            /\ (m.id = 64 /\ Len(d) >= 2 /\ d[2] = 1) =>
                  c = << [fn |-> "channel_event", channel |-> <<d[1]>>, event |-> 1,
                          data |-> SubSeq(d, 3, Len(d))] >>
            /\ (m.id = 64 /\ Len(d) < 2) => c = <<>>
            /\ m.id = 78 =>
                  \/ c = <<>>
                  \/ c = << [fn |-> "channel_event", channel |-> <<d[1]>>, event |-> 1000,
                             data |-> SubSeq(d, 2, Len(d))] >>
            /\ m.id = 79 =>
                  c = << [fn |-> "channel_event", channel |-> <<d[1]>>, event |-> 2000,
                          data |-> SubSeq(d, 2, Len(d))] >>
            /\ m.id = 80 =>
                  \A k \in 1..Len(c) : c[k].fn = "channel_event" /\ c[k].event = 3000
            /\ m.id \notin {111, 174, 62, 84, 97, 82, 81, 64, 78, 79, 80} => c = <<>>

\* a 0x40 frame with secondary code 1 went to the channel-event callback and a
\* 0x40 frame with secondary code 5 went to the response callback with id 5
C6_Witness ==
    /\ Len(rxLog) >= 2
    /\ rxLog[1].msg.id = 64 /\ rxLog[1].msg.data = <<3, 1, 9>>
    /\ rxLog[1].calls = << [fn |-> "channel_event", channel |-> <<3>>, event |-> 1,
                            data |-> <<9>>] >>
    /\ rxLog[2].msg.id = 64 /\ rxLog[2].msg.data = <<3, 5, 9>>
    /\ rxLog[2].calls = << [fn |-> "response", channel |-> <<3>>, event |-> 5,
                            data |-> <<9>>] >>

\* the burst accumulator after the first i frames of the log, from the claim:
\* payload[1:] of every burst frame since the last terminal one, in arrival order
RECURSIVE AccAfter(_, _)
AccAfter(log, i) ==
    IF i = 0 THEN <<>>
    ELSE IF log[i].msg.id # 80 THEN AccAfter(log, i - 1)
    ELSE IF log[i].msg.data[1] >= 128 THEN <<>>
    ELSE AccAfter(log, i - 1) \o SubSeq(log[i].msg.data, 2, Len(log[i].msg.data))

\* C7: a burst frame with the terminal flag clear causes no callback; one with the
\* flag set causes exactly one burst-packet event for channel byte0 & 0x1F carrying
\* the payload tails of all burst frames since the previous terminal frame, in
\* arrival order; the accumulator holds the tails since the last terminal frame,
\* so it is empty right after a terminal frame.
C7_BurstReassembly ==
    /\ burst_data = AccAfter(rxLog, Len(rxLog))
    /\ \A i \in 1..Len(rxLog) :
          LET m == rxLog[i].msg
          IN  m.id = 80 =>
                IF m.data[1] >= 128
                THEN rxLog[i].calls =
                        << [fn |-> "channel_event", channel |-> <<m.data[1] % 32>>,
                            event |-> 3000,
                            data |-> AccAfter(rxLog, i - 1)
                                       \o SubSeq(m.data, 2, Len(m.data))] >>
                ELSE rxLog[i].calls = <<>>

\* sequence codes 0, 1, 2|terminal on channel 3: one event with the three tails
C7_Witness ==
    /\ Len(rxLog) = 3
    /\ rxLog[1].msg.id = 80 /\ rxLog[1].msg.data = <<3, 7>> /\ rxLog[1].calls = <<>>
    /\ rxLog[2].msg.id = 80 /\ rxLog[2].msg.data = <<35, 8>> /\ rxLog[2].calls = <<>>
    /\ rxLog[3].msg.id = 80 /\ rxLog[3].msg.data = <<195, 9>>
    /\ rxLog[3].calls = << [fn |-> "channel_event", channel |-> <<3>>, event |-> 3000,
                            data |-> <<7, 8, 9>>] >>
    /\ burst_data = <<>>

(***************************************************************************)
(* The codec specification: an (id, payload) is built by Message(), encoded *)
(* by get(), optionally damaged (one bit flipped, or the last byte cut),    *)
(* decoded by parse(), and the bytes are then handed by the transport to    *)
(* the reading thread.                                                      *)
(***************************************************************************)
CodecIds == {0, BROADCAST_DATA, ACKNOWLEDGE_DATA, SYNC, 255}

CodecBytes == {0, 1, SYNC, 255}

RECURSIVE SeqsUpTo(_, _)
SeqsUpTo(S, n) ==
    IF n = 0 THEN {<<>>}
    ELSE LET shorter == SeqsUpTo(S, n - 1)
         IN  shorter \cup {Append(q, x) : q \in {r \in shorter : Len(r) = n - 1}, x \in S}

\* the longest payload the length byte can describe
LongPayload == [i \in 1..ByteMax |-> 1]

CodecInputs ==
    {[id |-> i, data |-> d] : i \in CodecIds, d \in SeqsUpTo(CodecBytes, MaxLen)}
        \cup {[id |-> BROADCAST_DATA, data |-> LongPayload]}

CodecInit ==
    /\ EngineInit
    /\ stream = <<>>
    /\ sent = <<>>
    /\ cstage = "input"
    /\ cin \in CodecInputs
    /\ cmsg = NoResult
    /\ cbytes = NoResult
    /\ cbuf = <<>>
    /\ cres = NoResult

engineVars == <<readerVars, queueVars, callerVars, stream, sent, histVars, drainVars>>

\* Message(id, payload)
CodecConstruct ==
    /\ cstage = "input"
    /\ cmsg' = Message(cin.id, cin.data)
    /\ cstage' = IF cmsg'.ok THEN "built" ELSE "failed"
    /\ UNCHANGED <<cin, cbytes, cbuf, cres, engineVars>>

\* Message.get()
CodecGet ==
    /\ cstage = "built"
    /\ cbytes' = get(cmsg.msg)
    /\ cbuf' = cbytes'.bytes
    /\ cstage' = IF cbytes'.ok THEN "encoded" ELSE "failed"
    /\ UNCHANGED <<cin, cmsg, cres, engineVars>>

FlipBit(buf, i, b) == [buf EXCEPT ![i] = Xor(@, 2 ^ b)]

\* the link flips bit b of byte i of the encoded frame
CodecFlip(i, b) ==
    /\ cstage = "encoded"
    /\ i \in 1..Len(cbuf)
    /\ cbuf' = FlipBit(cbuf, i, b)
    /\ cstage' = "damaged"
    /\ UNCHANGED <<cin, cmsg, cbytes, cres, engineVars>>

\* the link loses the last byte of the encoded frame
CodecCut ==
    /\ cstage = "encoded"
    /\ cbuf' = SubSeq(cbuf, 1, Len(cbuf) - 1)
    /\ cstage' = "damaged"
    /\ UNCHANGED <<cin, cmsg, cbytes, cres, engineVars>>

\* Message.parse(bytes)
CodecParse ==
    /\ cstage \in {"encoded", "damaged"}
    /\ cres' = parse(cbuf)
    /\ cstage' = IF cstage = "encoded" THEN "parsed" ELSE "parsed_damaged"
    /\ UNCHANGED <<cin, cmsg, cbytes, cbuf, engineVars>>

\* self._in.read returns the bytes to the reading thread
CodecFeed ==
    /\ cstage \in {"parsed", "parsed_damaged"}
    /\ TransportRead(cbuf)
    /\ cstage' = IF cstage = "parsed" THEN "fed" ELSE "fed_damaged"
    /\ UNCHANGED <<stream, sent, cin, cmsg, cbytes, cbuf, cres>>

NextCodec ==
    \/ CodecConstruct
    \/ CodecGet
    \/ \E i \in 1..(MaxLen + 4) \cup {Len(cbuf)}, b \in 0..7 : CodecFlip(i, b)
    \/ CodecCut
    \/ CodecParse
    \/ CodecFeed
    \/ ReaderLoop
    \/ ReaderSlice
    \/ ReaderDispatch
    \/ ReaderTryAcquire
    \/ ReaderDrainEmpty
    \/ ReaderRelease
    \/ ReaderSetLast

SpecCodec == CodecInit /\ [][NextCodec]_vars

\* C8: for every id and every payload of 0 to 255 bytes, Message(id, payload).get()
\* succeeds, and Message.parse of the resulting bytes succeeds and yields the same
\* id and the same payload.
C8_RoundTrip ==
    /\ cstage # "failed"
    /\ cstage \in {"parsed", "fed"} =>
          /\ cres.ok
          /\ cres.msg.id = cin.id
          /\ cres.msg.data = cin.data

\* what makes a candidate invalid: wrong sync byte, declared length different from
\* the byte count minus 4, or last byte different from the xor of all bytes before
RECURSIVE XorOf(_)
XorOf(s) ==
    IF s = <<>> THEN 0
    ELSE IF Len(s) = 1 THEN s[1]
    ELSE Xor(XorOf(SubSeq(s, 1, Len(s) \div 2)), XorOf(SubSeq(s, Len(s) \div 2 + 1, Len(s))))

InvalidFrame(b) ==
    \/ Len(b) < 4
    \/ b[1] # 164
    \/ b[2] # Len(b) - 4
    \/ b[Len(b)] # XorOf(SubSeq(b, 1, Len(b) - 1))

\* C9: parse fails on every invalid byte sequence handed to it, in particular on an
\* encoded frame with one bit flipped; and when the candidate the reading thread
\* sliced from the stream is invalid, the thread has stopped on the decoding error
\* without invoking a callback for it.
C9_InvalidNeverDelivered ==
    /\ (cstage \in {"parsed", "parsed_damaged", "fed", "fed_damaged"} /\ InvalidFrame(cbuf))
          => ~cres.ok
    /\ cstage \in {"parsed_damaged", "fed_damaged"} => ~cres.ok
    /\ (packet # <<>> /\ InvalidFrame(packet)) =>
          /\ pc = "dead"
          /\ calls = <<>>
          /\ rxLog = <<>>

\* an encoded broadcast frame with one bit of its payload flipped was sliced by the
\* reading thread, failed to decode and reached no callback
C9_Witness ==
    /\ cstage = "fed_damaged"
    /\ cin.id = 78
    /\ Len(cbuf) = Len(cbytes.bytes)
    /\ cbuf[4] # cbytes.bytes[4]
    /\ packet = cbuf
    /\ ~cres.ok
    /\ pc = "dead"
    /\ calls = <<>>

(***************************************************************************)
(* The frame assembler: a stream of valid frames reaches read_message in   *)
(* transport reads of arbitrary size.                                      *)
(***************************************************************************)
AsmIds == {BROADCAST_DATA, RESPONSE_VERSION}

AsmBytes == {0, 1}

\* the frames the device sends: every payload length from 0 to MaxLen
AsmFrames == [id : AsmIds, data : SeqsUpTo(AsmBytes, MaxLen)]

RECURSIVE Concat(_)
Concat(frames) ==
    IF frames = <<>> THEN <<>>
    ELSE Wire(Head(frames).id, Head(frames).data) \o Concat(Tail(frames))

AsmInit ==
    /\ EngineInit
    /\ CodecIdle
    /\ sent \in SeqsUpTo(AsmFrames, MaxStreamFrames)
    /\ stream = Concat(sent)

\* `self._in.read(4096)` returns the next k bytes of the stream (k may be 0)
AsmRead(k) ==
    /\ k <= Len(stream)
    /\ TransportRead(SliceTo(stream, k))
    /\ stream' = SliceFrom(stream, k)
    /\ UNCHANGED <<sent, codecVars>>

NextAsm ==
    \/ ReaderLoop
    \/ ReaderSlice
    \/ ReaderDispatch
    \/ ReaderTryAcquire
    \/ ReaderDrainEmpty
    \/ ReaderRelease
    \/ ReaderSetLast
    \/ \E k \in 0..MaxChunk \cup {Len(stream)} : AsmRead(k)

SpecAsm == AsmInit /\ [][NextAsm]_vars

\* C10: whatever the split of the bytes of N valid frames (zero-length payloads
\* included) into transport reads, read_message never fails, returns the frames
\* sent in their order, and has returned all N of them once the last byte of the
\* stream has been read.
C10_ChunkingIndependence ==
    /\ pc # "dead"
    /\ Len(rxLog) <= Len(sent)
    /\ \A i \in 1..Len(rxLog) :
          /\ rxLog[i].msg.id = sent[i].id
          /\ rxLog[i].msg.data = sent[i].data
    /\ (stream = <<>> /\ pc = "read" /\ ~HasMessage(buffer)) => Len(rxLog) = Len(sent)

(***************************************************************************)
(* Transport errors in the reading thread (engine specification).          *)
(***************************************************************************)
\* C11: a transport error raised by the read or by a drain write takes the reader
\* back to the top of its loop and never ends it: the reader ends only when a
\* stop was requested, and a frame in the buffer decodes and goes on to the
\* callbacks; a
\* failed read leaves the stream buffer, the burst accumulator, the last
\* broadcast payload and the outgoing queue as they were.
C11_TransportErrorSoftFail ==
    /\ [](pc # "dead")
    /\ [](drainEnd = "failed" => pc \in {"loop", "read", "done"})
    /\ [](pc = "done" => ~running)
    /\ []((pc = "read" /\ HasMessage(buffer)) => parse(SliceTo(buffer, buffer[2] + 4)).ok)
    /\ [](pc = "dispatch" => dispatch(message, last_data, burst_data).err = "")
    /\ [][(pc = "read" /\ pc' # "read" /\ ~HasMessage(buffer)) =>
            /\ pc' = "loop"
            /\ buffer' = buffer
            /\ burst_data' = burst_data
            /\ last_data' = last_data
            /\ message_queue' = message_queue]_vars
    /\ [][(pc = "drain" /\ drainEnd' = "failed") => pc' = "loop"]_vars

\* a drain write failed while the first frame was processed (a queued frame is
\* neither written nor queued any more), and the frame that arrived afterwards
\* was read and delivered to the channel-event callback
C11_Witness ==
    /\ Len(rxLog) = 2
    /\ Len(written) + Len(message_queue) < Len(enqLog)
    /\ drainEnd # "failed"
    /\ rxLog[2].calls # <<>>
    /\ pc = "loop"
    /\ running

(***************************************************************************)
(* Stopping: the engine with a reading thread that keeps taking steps and  *)
(* a transport read that always returns, with a frame or with an error.    *)
(***************************************************************************)
\* the transport hands out one broadcast frame per read
BroadcastRead ==
    /\ Len(rxLog) < MaxRx
    /\ TransportRead(Wire(BROADCAST_DATA, <<0, 1>>))
    /\ UNCHANGED <<stream, sent, codecVars>>

\* one caller, sending acknowledged data
StopCaller ==
    \/ CallAck("c1", <<CallerByte("c1")>>)
    \/ CallerAcquire("c1")
    \/ CallerAppend("c1")
    \/ CallerRelease("c1")

NextStop ==
    \/ Reader
    \/ BroadcastRead
    \/ ReadFail
    \/ Stop
    \/ StopCaller

SpecStop ==
    /\ Init
    /\ [][NextStop]_vars
    /\ WF_vars(Reader)
    /\ WF_vars(BroadcastRead \/ ReadFail)

\* C12: once the stop flag is set the reader eventually leaves its loop; from
\* then on it never starts a read again, so it processes at most the frame
\* whose read was in progress when the flag was set.
C12_StopTerminates ==
    /\ (~running) ~> (pc = "done")
    /\ [][(~running /\ pc # "read") => pc' # "read"]_vars
    /\ [][pc = "done" => pc' = "done"]_vars

\* the reader has ended after a stop request with a frame left in the queue
C12_Witness ==
    /\ ~running
    /\ pc = "done"
    /\ rxLog # <<>>
    /\ message_queue # <<>>
    /\ Len(written) < Len(enqLog)

(***************************************************************************)
(* Oversized payloads on the queued send path: the engine with one caller  *)
(* whose acknowledged data is either one byte or 255 bytes long, which     *)
(* send_acknowledged_data prefixes with the channel byte.                  *)
(***************************************************************************)
OversizeCaller ==
    \/ \E d \in {<<CallerByte("c1")>>, LongPayload} : CallAck("c1", d)
    \/ CallerAcquire("c1")
    \/ CallerAppend("c1")
    \/ CallerRelease("c1")

NextOversize ==
    \/ ReaderLoop
    \/ ReaderSlice
    \/ ReaderDispatch
    \/ ReaderTryAcquire
    \/ ReaderDrainEmpty
    \/ ReaderDrainWrite
    \/ ReaderRelease
    \/ ReaderSetLast
    \/ BroadcastRead
    \/ OversizeCaller

SpecOversize == Init /\ [][NextOversize]_vars

\* C13: a message whose payload is longer than 255 bytes never enters the
\* outgoing queue, so every queued message can be encoded and the reader never
\* pops one it cannot encode.
C13_OversizeNeverQueued ==
    /\ \A i \in 1..Len(enqLog) : Len(enqLog[i].data) <= ByteMax
    /\ \A i \in 1..Len(message_queue) : get(message_queue[i]).ok
    /\ drainEnd # "crashed"
    /\ pc # "dead"

(***************************************************************************)
(* Bursts in the outgoing queue (engine specification).                    *)
(***************************************************************************)
IsBurst(m) == m.id = 80

BurstChannel(m) == BitAnd(m.data[1], 31)

\* the two low bits of the sequence number: 0 for the first frame of a burst
BurstIndex(m) == ShiftRight(m.data[1], 5) % 4

\* in the sequence q of frames, every frame of a burst that is not its first is
\* directly behind the preceding frame of the same burst, and every frame of a
\* burst that is not its last is directly followed by one
WholeBursts(q) ==
    /\ \A i \in 1..Len(q) :
          (IsBurst(q[i]) /\ BurstIndex(q[i]) # 0) =>
              /\ i > 1
              /\ IsBurst(q[i - 1])
              /\ ~EndsSlot(q[i - 1])
              /\ BurstChannel(q[i - 1]) = BurstChannel(q[i])
    /\ \A i \in 1..Len(q) : ~EndsSlot(q[i]) => i < Len(q)

\* C14: the frames a drain has written when it ends contain every burst whole,
\* from its first frame to its terminal frame: no drain writes a part of a
\* burst and leaves the rest to a later broadcast period.
C14_BurstInOneDrain ==
    drainEnd \in {"done", "failed", "crashed"} => WholeBursts(drainWritten)

(***************************************************************************)
(* The queue lock (engine specification).                                  *)
(***************************************************************************)
\* C15: whenever the reader is at the top of its loop or reading the next frame
\* it does not own the queue lock, whichever way it left the drain; so a caller
\* waiting for the lock is never shut out by the reader for good.
C15_ReaderHoldsLockOnlyInDrain ==
    pc \in {"loop", "read"} => lockOwner # "reader"

(***************************************************************************)
(* Duplicate detection across frames of other ids (dispatch specification).*)
(***************************************************************************)
\* the payload of the most recent broadcast-data frame among the first n frames
\* processed that was delivered to the channel-event callback; empty if none
RECURSIVE LastDelivered(_)
LastDelivered(n) ==
    IF n = 0 THEN <<>>
    ELSE IF rxLog[n].msg.id = 78 /\ rxLog[n].calls # <<>>
         THEN rxLog[n].msg.data
         ELSE LastDelivered(n - 1)

\* C16: a broadcast-data frame is suppressed exactly when its payload equals that
\* of the most recently delivered broadcast-data frame, whatever frames of other
\* ids were processed in between; and between frames the stored last payload
\* is that payload.
C16_LastBroadcastPayload ==
    /\ \A i \in 1..Len(rxLog) :
          rxLog[i].msg.id = 78 =>
              (rxLog[i].calls = <<>> <=> rxLog[i].msg.data = LastDelivered(i - 1))
    /\ pc \in {"loop", "read"} => last_data = LastDelivered(Len(rxLog))

(***************************************************************************)
(* Conservation of the stream buffer (dispatch specification).             *)
(***************************************************************************)
\* the bytes of the frames read_message has returned: the frames dispatched so
\* far and the one returned but not yet dispatched
RECURSIVE ReturnedBytes(_)
ReturnedBytes(n) ==
    IF n = 0 THEN <<>>
    ELSE ReturnedBytes(n - 1) \o get(rxLog[n].msg).bytes

Returned ==
    ReturnedBytes(Len(rxLog)) \o (IF pc = "dispatch" THEN get(message).bytes ELSE <<>>)

\* C17: the bytes of the frames returned so far, in order, followed by the
\* stream buffer, are the bytes read from the transport so far; a candidate
\* that fails to decode takes no byte out of the buffer.
C17_StreamBufferConservation == readLog = Returned \o buffer

(***************************************************************************)
(* Conservation of the queued frames (engine specification).               *)
(***************************************************************************)
\* C18: the frames enqueued so far are exactly the frames written to the
\* transport so far followed by the frames still queued, each once and in
\* order: a frame popped by a drain is written or still queued.
C18_NoQueuedFrameLost == enqLog = written \o message_queue

(***************************************************************************)
(* Timeslots without end: broadcast frames keep arriving, every transport  *)
(* write succeeds, no stop is requested, and one caller enqueues           *)
(* acknowledged data and bursts.  The reader, the transport and the caller *)
(* inside write_message_timeslot keep taking steps.                        *)
(***************************************************************************)
\* the record of the frames processed is started afresh once it is full, so that
\* the transport can go on delivering; the program reads none of these variables
Recycle ==
    /\ pc = "read"
    /\ ~HasMessage(buffer)
    /\ Len(rxLog) >= MaxRx
    /\ rxLog' = <<>>
    /\ readLog' = <<>>
    /\ UNCHANGED <<readerVars, queueVars, callerVars, stream, sent>>
    /\ UNCHANGED <<packet, calls, written, enqLog, drainVars, codecVars>>

SlotReader ==
    \/ ReaderLoop
    \/ ReaderSlice
    \/ ReaderDispatch
    \/ ReaderTryAcquire
    \/ ReaderDrainEmpty
    \/ ReaderDrainWrite
    \/ ReaderRelease
    \/ ReaderSetLast

SlotCallerEnter ==
    \/ CallAck("c1", <<CallerByte("c1")>>)
    \/ CallBurst("c1", CallerChannel("c1"), << <<CallerByte("c1")>>, <<CallerByte("c1") + 1>> >>)

SlotCallerStep ==
    \/ CallerAcquire("c1")
    \/ CallerAppend("c1")
    \/ CallerRelease("c1")

NextSlots ==
    \/ SlotReader
    \/ BroadcastRead
    \/ Recycle
    \/ SlotCallerEnter
    \/ SlotCallerStep

SpecSlots ==
    /\ Init
    /\ [][NextSlots]_vars
    /\ WF_vars(SlotReader)
    /\ WF_vars(BroadcastRead \/ Recycle)
    /\ WF_vars(SlotCallerStep)

Contiguous(q) ==
    \A i \in 1..(Len(q) - 1) :
        (IsBurst(q[i]) /\ ~EndsSlot(q[i])) =>
            /\ IsBurst(q[i + 1])
            /\ BurstChannel(q[i + 1]) = BurstChannel(q[i])
            /\ BurstIndex(q[i + 1]) = (BurstIndex(q[i]) + 1) % 4

\* C20: whatever the callers do concurrently, no frame of another call stands
\* between two frames of one burst, in the order of the appends, in the queue
\* and in the order of the writes.
C20_BurstsNotInterleaved ==
    /\ Contiguous(enqLog)
    /\ Contiguous(message_queue)
    /\ Contiguous(written)

====
